---- MODULE Spec2Model ----
(***************************************************************************)
(* Model of the RU-UA entity classifier                                    *)
(* (src/wiki_pedia_data_classify3.0/ru_ua_classify_entities.py):           *)
(* merge_records_by_qid, build_place_country_map / run_sparql,             *)
(* structured_score, text_score, decide_label and the pass of main().      *)
(*                                                                         *)
(* Seven specifications share the definitions:                             *)
(*   SpecDecide  decide_label applied to bounded score vectors;            *)
(*   SpecMerge   merge_records_by_qid applied to bounded record lists,     *)
(*               and applied again to its own result;                      *)
(*   Spec        one run of main() over bounded input rows;                *)
(*   SpecResolve build_place_country_map on bounded lists of places;       *)
(*   SpecText    the classification loop of main() on entities with texts; *)
(*   SpecScore   main() after the merge, with one canonical entity;        *)
(*   SpecPipeline main() on a few rows of two identifiers.                 *)
(***************************************************************************)
EXTENDS Integers, Sequences, FiniteSets, TLC

VARIABLES
    pc,          \* position of the program (of the caller, for the pure-function specifications)
    dl,          \* decide_label call: arguments ru, ua, other, T and the returned label
    in_rows,     \* the records as they were handed to merge_records_by_qid (file contents)
    all_rows,    \* the record objects of the list being merged; the merge updates them in place
    merged,      \* dict `merged`: indices into all_rows of the canonical objects, in insertion order
    i,           \* loop index of `for r in records`
    result,      \* list returned by merge_records_by_qid
    prev_result, \* list returned by the previous application (SpecMerge)
    pass_no,     \* number of the current application of merge_records_by_qid
    hash_seed,   \* this process's iteration order of Python sets of strings
    threshold,   \* args.other_threshold
    stdout,      \* what main() has printed: the counts of its messages, in order
    place_arg,   \* the list handed to build_place_country_map
    place_qids,  \* that list after the filter of line 195
    batch_start, \* `i` of `for i in range(0, len(place_qids), BATCH)`
    attempt,     \* `attempt` of run_sparql for the batch in flight
    sleeps,      \* the backoff waits of run_sparql so far, in seconds
    requests,    \* the queries sent so far, one per sparql.query() call: batch and outcome
    last_err,    \* `last_err` of run_sparql (empty for None), the exception a crashed run ends with
    place_country_map, \* `out` of build_place_country_map, then main's place_country_map
    ci,          \* position of `for e in merged` in the classification loop
    counts,      \* Counter of labels
    out_file     \* the rows written to args.out

mergeVars == <<in_rows, all_rows, merged, i, result, prev_result, pass_no>>

mainVars == <<hash_seed, threshold, stdout, place_arg, place_qids, batch_start, attempt,
              sleeps, requests, last_err, place_country_map, ci, counts, out_file>>

vars == <<pc, dl, mergeVars, mainVars>>

\* Python's None / an absent key.
NULL == "null"

----------------------------------------------------------------------------
(* decide_label                                                            *)

\* Largest score of the decide_label arguments drawn in SpecDecide.
MaxScore == 5
\* Thresholds drawn in SpecDecide are -MaxThreshold..MaxThreshold.
MaxThreshold == 6

\* decide_label with the Other comparison strict (> instead of >=).
decide_label_strict(ru_score, ua_score, other_score, other_strict_threshold) ==
    IF ru_score > 0 /\ ua_score > 0 THEN "mixed"
    ELSE IF ru_score > 0 /\ ua_score = 0 THEN "Russian"
    ELSE IF ua_score > 0 /\ ru_score = 0 THEN "Ukraine"
    ELSE IF other_score > other_strict_threshold THEN "other"
    ELSE "mixed"

\* decide_label without its first rule: the single-affiliation rules test only their own score.
decide_label_norule1(ru_score, ua_score, other_score, other_strict_threshold) ==
    IF ru_score > 0 THEN "Russian"
    ELSE IF ua_score > 0 THEN "Ukraine"
    ELSE IF other_score >= other_strict_threshold THEN "other"
    ELSE "mixed"

\* decide_label with the Other test moved in front of the single-affiliation rules.
decide_label_otherfirst(ru_score, ua_score, other_score, other_strict_threshold) ==
    IF ru_score > 0 /\ ua_score > 0 THEN "mixed"
    ELSE IF other_score >= other_strict_threshold THEN "other"
    ELSE IF ru_score > 0 /\ ua_score = 0 THEN "Russian"
    ELSE IF ua_score > 0 /\ ru_score = 0 THEN "Ukraine"
    ELSE "mixed"

decide_label(ru_score, ua_score, other_score, other_strict_threshold) ==
    IF ru_score > 0 /\ ua_score > 0 THEN "mixed"
    ELSE IF ru_score > 0 /\ ua_score = 0 THEN "Russian"
    ELSE IF ua_score > 0 /\ ru_score = 0 THEN "Ukraine"
    ELSE IF other_score >= other_strict_threshold THEN "other"
    ELSE "mixed"

NoDecide == [ru |-> 0, ua |-> 0, other |-> 0, T |-> 0, out |-> NULL]

MergeIdle ==
    /\ in_rows = <<>>
    /\ all_rows = <<>>
    /\ merged = <<>>
    /\ i = 1
    /\ result = <<>>
    /\ prev_result = <<>>
    /\ pass_no = 0

\* Label counter with nothing counted.
NoCounts == [l \in {"Russian", "Ukraine", "mixed", "other"} |-> 0]

MainIdle ==
    /\ hash_seed = "asc"
    /\ threshold = 4
    /\ stdout = <<>>
    /\ place_arg = <<>>
    /\ place_qids = <<>>
    /\ batch_start = 0
    /\ attempt = 0
    /\ sleeps = <<>>
    /\ requests = <<>>
    /\ last_err = <<>>
    /\ place_country_map = <<>>
    /\ ci = 1
    /\ counts = NoCounts
    /\ out_file = <<>>

InitDecide ==
    /\ pc = "decide"
    /\ MergeIdle
    /\ MainIdle
    /\ dl \in [ru : 0..MaxScore, ua : 0..MaxScore, other : 0..MaxScore,
               T : (-MaxThreshold)..MaxThreshold, out : {NULL}]

DecideCall ==
    /\ pc = "decide"
    /\ dl' = [dl EXCEPT !.out = decide_label(dl.ru, dl.ua, dl.other, dl.T)]
    /\ pc' = "decided"
    /\ UNCHANGED <<mergeVars, mainVars>>

NextDecide == DecideCall

SpecDecide == InitDecide /\ [][NextDecide]_vars

\* C1: with A-score 0 and B-score 0, decide_label returns "other" exactly when the
\* Other score is >= T, and "mixed" otherwise.
C1_ZeroZeroOtherIffThreshold ==
    (pc = "decided" /\ dl.ru = 0 /\ dl.ua = 0) =>
        /\ (dl.out = "other") <=> (dl.other >= dl.T)
        /\ (dl.out # "other") => (dl.out = "mixed")

C1_Witness ==
    pc = "decided" /\ dl.ru = 0 /\ dl.ua = 0 /\ dl.other = dl.T /\ dl.T > 0 /\ dl.out = "other"

\* C2: decide_label returns "mixed" whenever the A-score and the B-score are both > 0.
C2_BothPositiveMixed ==
    (pc = "decided" /\ dl.ru > 0 /\ dl.ua > 0) => dl.out = "mixed"

C2_Witness ==
    pc = "decided" /\ dl.ru > 0 /\ dl.ua > 0 /\ dl.other >= dl.T /\ dl.out = "mixed"

\* C3: when exactly one of the A-score and the B-score is positive and the other is 0,
\* decide_label returns that affiliation's label, whatever the Other score and T.
C3_SingleAffiliation ==
    pc = "decided" =>
        /\ (dl.ru > 0 /\ dl.ua = 0) => dl.out = "Russian"
        /\ (dl.ua > 0 /\ dl.ru = 0) => dl.out = "Ukraine"

C3_Witness ==
    pc = "decided" /\ dl.ua > 0 /\ dl.ru = 0 /\ dl.other >= dl.T /\ dl.T > 0 /\ dl.out = "Ukraine"

----------------------------------------------------------------------------
(* Records                                                                 *)

\* Languages of the record schema: for lang in ("en", "uk", "ru").
Langs == {"en", "uk", "ru"}

\* ATTRIB_PROP_IDS, in list order.
ATTRIB_PROP_IDS == <<"P27", "P17", "P495", "P159", "P131", "P276", "P19", "P740", "P551">>

Range(s) == {s[k] : k \in DOMAIN s}

Pids == Range(ATTRIB_PROP_IDS)

\* The strings that occur in sorted lists, in the order of Python's str comparison
\* (code-point order: "Q1001" < "Q159" < "Q30" < "Q5").
\* "cyr:..." stands for a Cyrillic string, written here in transliteration:
\* "cyr:Rossiya" for the Russian and "cyr:Rosiia" for the Ukrainian name of Russia.
StrOrder ==
    <<"", "P131", "P159", "P17", "P19", "P27", "P276", "P495", "P551", "P740",
      "Q100", "Q1001", "Q1002", "Q148", "Q159", "Q1899", "Q212", "Q30", "Q43229",
      "Q5", "Q649", "Q771", "Q9001", "Q9002", "Q9003", "Q9004", "Q9005",
      "RF", "Rossiya", "cyr:Rossiya", "cyr:Rosiia">>

Rank(x) == CHOOSE k \in DOMAIN StrOrder : StrOrder[k] = x

\* sorted(S) for a set S of strings.
RECURSIVE sorted(_)
sorted(S) ==
    IF S = {} THEN <<>>
    ELSE LET lo == CHOOSE x \in S : \A y \in S : Rank(x) <= Rank(y)
         IN  <<lo>> \o sorted(S \ {lo})

\* Python truth value of a scalar: None and "" are false.
Falsy(v) == v = NULL \/ v = ""

NoLang == [lang \in Langs |-> NULL]
NoAliases == [lang \in Langs |-> <<>>]
NoRaw == [pid \in Pids |-> <<>>]

\* A record of the unified schema. An absent key and an empty value are the same
\* value here: the code reads every such field through `.get(k) or <empty>`.
\* sitelinks and wiki_titles go through the same loop as labels and descriptions
\* (line 160) and are not carried.
Record(qid, source, labels, descriptions, aliases, instance_of, raw) ==
    [qid |-> qid, source |-> source, labels |-> labels, descriptions |-> descriptions,
     aliases |-> aliases, instance_of |-> instance_of, raw_attrib_qids |-> raw,
     _sources |-> <<>>, ru_ua_attribution |-> NULL, ru_ua_attribution_detail |-> <<>>]

----------------------------------------------------------------------------
(* merge_records_by_qid                                                    *)

\* Line 147 with the test dropped: a record without identifier is merged like any other.
Skipped_never(r) == FALSE

\* Line 147: `if not qid: continue`.
Skipped(r) == Falsy(r.qid)

\* Line 149 with every identifier found in the first entry of `merged`.
Lookup_any(rows, mg, qid) == {k \in DOMAIN mg : k = 1}

\* Line 149 with the lookup always missing: every record opens a new entry.
Lookup_miss(rows, mg, qid) == {}

\* Line 149: the positions in `merged` whose canonical record carries qid (none or one).
Lookup(rows, mg, qid) == {k \in DOMAIN mg : rows[mg[k]].qid = qid}

\* Lines 150-155: the first record of an identifier becomes the canonical record;
\* the setdefault calls fill absent list fields with empty ones.
FirstSeen(r) == [r EXCEPT !._sources = <<r.source>>]

\* Lines 160-164 with the later value winning whenever it is non-empty.
MergeScalar_lastwins(m_k, r_k) ==
    [lang \in Langs |-> IF ~Falsy(r_k[lang]) THEN r_k[lang] ELSE m_k[lang]]

\* Lines 160-164: a language's value is taken from r only where m has none.
MergeScalar(m_k, r_k) ==
    [lang \in Langs |-> IF Falsy(m_k[lang]) /\ ~Falsy(r_k[lang]) THEN r_k[lang] ELSE m_k[lang]]

\* Line 158 with the provenance deduplicated.
MergeSources_dedup(m_sources, src) ==
    IF src \in Range(m_sources) THEN m_sources ELSE Append(m_sources, src)

\* Line 158: m["_sources"].append(r.get("source")).
MergeSources(m_sources, src) == Append(m_sources, src)

\* Lines 166-182 with the set-valued fields of the canonical record kept as they are.
MergeSets_keepfirst(m, r) ==
    [instance_of |-> m.instance_of, raw_attrib_qids |-> m.raw_attrib_qids, aliases |-> m.aliases]

\* Lines 166-182: instance_of, raw_attrib_qids per property and aliases per language
\* become the sorted union of both records' values.
MergeSets(m, r) ==
    [instance_of |-> sorted(Range(m.instance_of) \cup Range(r.instance_of)),
     raw_attrib_qids |->
        [pid \in Pids |-> sorted(Range(m.raw_attrib_qids[pid]) \cup Range(r.raw_attrib_qids[pid]))],
     aliases |->
        [lang \in Langs |-> sorted(Range(m.aliases[lang] \o r.aliases[lang]))]]

\* Lines 157-182: the else branch, a further record r of an identifier merged into m.
MergeDuplicate(m, r) ==
    LET sets == MergeSets(m, r)
    IN  [m EXCEPT !._sources = MergeSources(m._sources, r.source),
                  !.labels = MergeScalar(m.labels, r.labels),
                  !.descriptions = MergeScalar(m.descriptions, r.descriptions),
                  !.instance_of = sets.instance_of,
                  !.raw_attrib_qids = sets.raw_attrib_qids,
                  !.aliases = sets.aliases]

\* Lines 145-182 with a further record of an identifier also given the merged
\* provenance list.
MergeIter_marklater(rows, mg, n) ==
    LET r == rows[n]
        hit == Lookup(rows, mg, r.qid)
    IN  IF Skipped(r) THEN [rows |-> rows, merged |-> mg]
        ELSE IF hit = {} THEN
            [rows |-> [rows EXCEPT ![n] = FirstSeen(r)], merged |-> Append(mg, n)]
        ELSE LET j == mg[CHOOSE k \in hit : TRUE]
                 m == MergeDuplicate(rows[j], r)
             IN  [rows |-> [rows EXCEPT ![j] = m, ![n] = [r EXCEPT !._sources = m._sources]],
                  merged |-> mg]

\* Lines 145-182: one iteration of `for r in records`, on the record at index n.
MergeIter(rows, mg, n) ==
    LET r == rows[n]
        hit == Lookup(rows, mg, r.qid)
    IN  IF Skipped(r) THEN [rows |-> rows, merged |-> mg]
        ELSE IF hit = {} THEN
            [rows |-> [rows EXCEPT ![n] = FirstSeen(r)], merged |-> Append(mg, n)]
        ELSE LET j == mg[CHOOSE k \in hit : TRUE]
             IN  [rows |-> [rows EXCEPT ![j] = MergeDuplicate(rows[j], r)], merged |-> mg]

\* Line 183: list(merged.values()).
Values(rows, mg) == [k \in DOMAIN mg |-> rows[mg[k]]]

RECURSIVE MergeFrom(_, _, _)
MergeFrom(rows, mg, n) ==
    IF n > Len(rows) THEN Values(rows, mg)
    ELSE LET st == MergeIter(rows, mg, n) IN MergeFrom(st.rows, st.merged, n + 1)

\* Lines 140-183: the whole function on a list of records.
merge_records_by_qid(records) == MergeFrom(records, <<>>, 1)

\* The loop of merge_records_by_qid, one iteration per step; all_rows holds the
\* record objects, so FirstSeen and MergeDuplicate update the first record of an
\* identifier in place.
MergeSkip ==
    /\ pc = "merge" /\ i <= Len(all_rows)
    /\ Skipped(all_rows[i])
    /\ i' = i + 1
    /\ UNCHANGED <<pc, dl, in_rows, all_rows, merged, result, prev_result, pass_no, mainVars>>

MergeFirst ==
    /\ pc = "merge" /\ i <= Len(all_rows)
    /\ ~Skipped(all_rows[i])
    /\ Lookup(all_rows, merged, all_rows[i].qid) = {}
    /\ LET st == MergeIter(all_rows, merged, i)
       IN  all_rows' = st.rows /\ merged' = st.merged
    /\ i' = i + 1
    /\ UNCHANGED <<pc, dl, in_rows, result, prev_result, pass_no, mainVars>>

MergeDup ==
    /\ pc = "merge" /\ i <= Len(all_rows)
    /\ ~Skipped(all_rows[i])
    /\ Lookup(all_rows, merged, all_rows[i].qid) # {}
    /\ LET st == MergeIter(all_rows, merged, i)
       IN  all_rows' = st.rows /\ merged' = st.merged
    /\ i' = i + 1
    /\ UNCHANGED <<pc, dl, in_rows, result, prev_result, pass_no, mainVars>>

\* Line 183: return list(merged.values()).
MergeReturn ==
    /\ pc = "merge" /\ i > Len(all_rows)
    /\ result' = Values(all_rows, merged)
    /\ pc' = "returned"
    /\ UNCHANGED <<dl, in_rows, all_rows, merged, i, prev_result, pass_no, mainVars>>

----------------------------------------------------------------------------
(* SpecMerge: merge_records_by_qid on bounded record lists                 *)

\* Longest record list handed to merge_records_by_qid.
MaxRows == 3
\* Number of times the caller applies merge_records_by_qid (to the raw list, then
\* to each result).
MaxPasses == 2

\* source descriptors of the two harvesters ("type" of the source dict).
Sources == {"wikidata_sparql", "wikipedia_navboxes"}

\* labels / descriptions of the drawn records: none; an English label only; an
\* English label that differs, a Russian label and an English description.
ScalarNone == [labels |-> NoLang, descriptions |-> NoLang]
ScalarEn == [labels |-> [NoLang EXCEPT !["en"] = "Russia"], descriptions |-> NoLang]
ScalarEnRu ==
    [labels |-> [NoLang EXCEPT !["en"] = "Russian Federation", !["ru"] = "cyr:Rossiya"],
     descriptions |-> [NoLang EXCEPT !["en"] = "country"]]

\* set-valued fields of the drawn records, as the harvesters write them (sorted,
\* without duplicates); the two choices overlap and each has values the other lacks.
SetsA ==
    [instance_of |-> <<"Q5">>,
     aliases |-> [NoAliases EXCEPT !["en"] = <<"RF">>],
     raw |-> [NoRaw EXCEPT !["P27"] = <<"Q159">>]]
SetsB ==
    [instance_of |-> <<"Q43229", "Q5">>,
     aliases |-> [NoAliases EXCEPT !["en"] = <<"RF", "Rossiya">>, !["uk"] = <<"cyr:Rosiia">>],
     raw |-> [NoRaw EXCEPT !["P27"] = <<"Q212">>, !["P159"] = <<"Q649">>]]

\* The field contents a drawn record can have.
Contents ==
    { [sc |-> ScalarNone, st |-> SetsA], [sc |-> ScalarEn, st |-> SetsA],
      [sc |-> ScalarEn, st |-> SetsB], [sc |-> ScalarEnRu, st |-> SetsB] }

\* Records with an identifier: every content from either source. Records without
\* one (an absent or empty qid) from either source.
MergePool ==
    { Record(q, src, c.sc.labels, c.sc.descriptions, c.st.aliases, c.st.instance_of, c.st.raw) :
        q \in {"Q1001", "Q1002"}, src \in Sources, c \in Contents }
    \cup
    { Record(NULL, src, ScalarEn.labels, ScalarEn.descriptions, SetsA.aliases,
             SetsA.instance_of, SetsA.raw) : src \in Sources }

InitMerge ==
    /\ pc = "merge"
    /\ dl = NoDecide
    /\ in_rows \in UNION {[1..n -> MergePool] : n \in 0..MaxRows}
    /\ all_rows = in_rows
    /\ merged = <<>>
    /\ i = 1
    /\ result = <<>>
    /\ prev_result = <<>>
    /\ pass_no = 1
    /\ MainIdle

\* The caller hands the returned canonical records to merge_records_by_qid again.
MergeAgain ==
    /\ pc = "returned" /\ pass_no < MaxPasses
    /\ prev_result' = result
    /\ in_rows' = result
    /\ all_rows' = result
    /\ merged' = <<>>
    /\ i' = 1
    /\ result' = <<>>
    /\ pass_no' = pass_no + 1
    /\ pc' = "merge"
    /\ UNCHANGED <<dl, mainVars>>

NextMerge == MergeSkip \/ MergeFirst \/ MergeDup \/ MergeReturn \/ MergeAgain

SpecMerge == InitMerge /\ [][NextMerge]_vars

\* Identifiers carried by a list of records.
QidsOf(rows) == {rows[k].qid : k \in {n \in DOMAIN rows : ~Falsy(rows[n].qid)}}

\* The records of a list that carry identifier q, in list order.
WithQid(rows, q) == SelectSeq(rows, LAMBDA r : r.qid = q)

\* The call was handed exactly two raw records, both carrying the same identifier.
TwoOfOneId ==
    /\ pass_no = 1 /\ Len(in_rows) = 2
    /\ ~Falsy(in_rows[1].qid) /\ in_rows[1].qid = in_rows[2].qid

\* C5: merge_records_by_qid returns exactly one canonical record per distinct
\* identifier: no two returned records share an identifier and the returned
\* identifiers are exactly those carried by the input records.
C5_OnePerIdentifier ==
    pc = "returned" =>
        /\ \A a, b \in DOMAIN result : result[a].qid = result[b].qid => a = b
        /\ {result[k].qid : k \in DOMAIN result} = QidsOf(in_rows)

C5_Witness ==
    /\ pc = "returned" /\ pass_no = 1
    /\ Len(in_rows) = 3 /\ Len(result) = 2
    /\ \A k \in DOMAIN in_rows : ~Falsy(in_rows[k].qid)

\* C6: merging the canonical records of a previous merge again returns records
\* identical to that first result.
C6_Idempotent ==
    (pc = "returned" /\ pass_no = 2) => result = prev_result

\* C7: for two raw records with the same identifier, merged in either order, every
\* alias set, the type-tag set and the target set of every relation kind is the
\* deduplicated union of the two records' values.
C7_SetFieldsUnion ==
    (pc = "returned" /\ TwoOfOneId) =>
        LET a == in_rows[1]
            b == in_rows[2]
            c == result[1]
            d == merge_records_by_qid(<<b, a>>)[1]
        IN  /\ Range(c.instance_of) = Range(a.instance_of) \cup Range(b.instance_of)
            /\ \A pid \in Pids : Range(c.raw_attrib_qids[pid]) =
                   Range(a.raw_attrib_qids[pid]) \cup Range(b.raw_attrib_qids[pid])
            /\ \A lang \in Langs : Range(c.aliases[lang]) =
                   Range(a.aliases[lang]) \cup Range(b.aliases[lang])
            /\ \A k, l \in DOMAIN c.instance_of : k < l => c.instance_of[k] # c.instance_of[l]
            /\ \A lang \in Langs : \A k, l \in DOMAIN c.aliases[lang] :
                   k < l => c.aliases[lang][k] # c.aliases[lang][l]
            /\ \A pid \in Pids : \A k, l \in DOMAIN c.raw_attrib_qids[pid] :
                   k < l => c.raw_attrib_qids[pid][k] # c.raw_attrib_qids[pid][l]
            /\ d.instance_of = c.instance_of
            /\ d.raw_attrib_qids = c.raw_attrib_qids
            /\ d.aliases = c.aliases

C7_Witness ==
    /\ pc = "returned" /\ TwoOfOneId
    /\ in_rows[1].aliases # in_rows[2].aliases
    /\ in_rows[1].instance_of # in_rows[2].instance_of
    /\ Len(result[1].aliases["en"]) = 2
    /\ Len(result[1].raw_attrib_qids["P27"]) = 2

\* First value of a language in a list of scalar maps that is not empty, in list
\* order; the first record's own value when every value is empty.
RECURSIVE FirstNonEmpty(_, _, _)
FirstNonEmpty(rows, key, lang) ==
    IF Len(rows) = 1 THEN rows[1][key][lang]
    ELSE IF ~Falsy(rows[1][key][lang]) THEN rows[1][key][lang]
    ELSE LET rest == FirstNonEmpty(Tail(rows), key, lang)
         IN  IF Falsy(rest) THEN rows[1][key][lang] ELSE rest

C9_ProvenancePerRecord ==
    pc = "returned" =>
        \A k \in DOMAIN result :
            LET rs == WithQid(in_rows, result[k].qid)
            IN  /\ Len(result[k]._sources) = Len(rs)
                /\ \A n \in DOMAIN rs : result[k]._sources[n] = rs[n].source

C9_Witness ==
    /\ pc = "returned" /\ pass_no = 1 /\ Len(result) = 1
    /\ Len(result[1]._sources) = 3
    /\ result[1]._sources[1] = result[1]._sources[3]
    /\ result[1]._sources[1] # result[1]._sources[2]

----------------------------------------------------------------------------
(* Scoring: structured_score, text_score                                   *)

Q_RUSSIA == "Q159"
Q_UKRAINE == "Q212"

\* OTHER_COUNTRY_HINTS: USA, China, Germany, UK, France, Poland, Belarus, EU.
OTHER_COUNTRY_HINTS == {"Q30", "Q148", "Q183", "Q145", "Q142", "Q36", "Q184", "Q458"}

WEIGHT_STRONG == 4
WEIGHT_MED == 2
WEIGHT_WEAK == 1

\* location_like of structured_score, a set literal.
location_like == {"P159", "P131", "P276", "P19", "P740", "P551"}

RECURSIVE Concat(_)
\* The lists of a list, joined in order.
Concat(ss) ==
    IF Len(ss) = 0 THEN <<>>
    ELSE IF Len(ss) = 1 THEN ss[1]
    ELSE LET h == Len(ss) \div 2
         IN  Concat(SubSeq(ss, 1, h)) \o Concat(SubSeq(ss, h + 1, Len(ss)))

Reverse(sq) == [k \in 1..Len(sq) |-> sq[Len(sq) + 1 - k]]

\* The order in which `for x in S` visits a set of strings. Python fixes it per
\* process (string hashing is seeded at start-up), not per program: two orders
\* stand for the orders a process can have.
HashSeeds == {"asc", "desc"}
SetOrder(S, seed) == IF seed = "asc" THEN sorted(S) ELSE Reverse(sorted(S))

\* place_country_map.get(place_qid, set()).
Get(map, k) == IF k \in DOMAIN map THEN map[k] ELSE {}

\* One evidence item: the bucket it adds to, the weight, and the hit string
\* (kept as the tuple of the parts the f-string joins with ":").
Item(bucket, w, hit) == [bucket |-> bucket, w |-> w, hit |-> hit]

\* A direct target scored with the weight of a place.
DirectHit_med(pid, v) ==
    IF v = Q_RUSSIA THEN <<Item("ru", WEIGHT_MED, <<pid, "direct", "RU", v>>)>>
    ELSE IF v = Q_UKRAINE THEN <<Item("ua", WEIGHT_MED, <<pid, "direct", "UA", v>>)>>
    ELSE IF v \in OTHER_COUNTRY_HINTS
         THEN <<Item("other", WEIGHT_MED, <<pid, "direct", "OTHER", v>>)>>
    ELSE <<>>

\* A direct target scored only when it is Russia or Ukraine.
DirectHit_nohint(pid, v) ==
    IF v = Q_RUSSIA THEN <<Item("ru", WEIGHT_STRONG, <<pid, "direct", "RU", v>>)>>
    ELSE IF v = Q_UKRAINE THEN <<Item("ua", WEIGHT_STRONG, <<pid, "direct", "UA", v>>)>>
    ELSE <<>>

\* Lines 299-308: a target that is a country itself.
DirectHit(pid, v) ==
    IF v = Q_RUSSIA THEN <<Item("ru", WEIGHT_STRONG, <<pid, "direct", "RU", v>>)>>
    ELSE IF v = Q_UKRAINE THEN <<Item("ua", WEIGHT_STRONG, <<pid, "direct", "UA", v>>)>>
    ELSE IF v \in OTHER_COUNTRY_HINTS
         THEN <<Item("other", WEIGHT_STRONG, <<pid, "direct", "OTHER", v>>)>>
    ELSE <<>>

\* A country of a place scored with the weight of a direct target.
PlaceHit_strong(pid, place_qid, c) ==
    IF c = Q_RUSSIA
    THEN <<Item("ru", WEIGHT_STRONG, <<pid, "place_country", "RU", place_qid, c>>)>>
    ELSE IF c = Q_UKRAINE
    THEN <<Item("ua", WEIGHT_STRONG, <<pid, "place_country", "UA", place_qid, c>>)>>
    ELSE IF c \in OTHER_COUNTRY_HINTS
    THEN <<Item("other", WEIGHT_STRONG, <<pid, "place_country", "OTHER", place_qid, c>>)>>
    ELSE <<>>

\* Lines 315-324: one country c that the index gives for a place.
PlaceHit(pid, place_qid, c) ==
    IF c = Q_RUSSIA
    THEN <<Item("ru", WEIGHT_MED, <<pid, "place_country", "RU", place_qid, c>>)>>
    ELSE IF c = Q_UKRAINE
    THEN <<Item("ua", WEIGHT_MED, <<pid, "place_country", "UA", place_qid, c>>)>>
    ELSE IF c \in OTHER_COUNTRY_HINTS
    THEN <<Item("other", WEIGHT_MED, <<pid, "place_country", "OTHER", place_qid, c>>)>>
    ELSE <<>>

\* Lines 296-308: for pid in ATTRIB_PROP_IDS, for v in vals.
DirectItems(raw) ==
    Concat([n \in DOMAIN ATTRIB_PROP_IDS |->
        LET pid == ATTRIB_PROP_IDS[n]
        IN  Concat([k \in DOMAIN raw[pid] |-> DirectHit(pid, raw[pid][k])])])

\* Lines 311-324: for pid in location_like, for place_qid in vals, for c in the
\* place's country set.
PlaceItems(raw, map, seed) ==
    LET pids == SetOrder(location_like, seed)
    IN  Concat([n \in DOMAIN pids |->
            LET pid == pids[n]
            IN  Concat([k \in DOMAIN raw[pid] |->
                    LET cs == SetOrder(Get(map, raw[pid][k]), seed)
                    IN  Concat([m \in DOMAIN cs |-> PlaceHit(pid, raw[pid][k], cs[m])])])])

RECURSIVE Total(_, _)
\* The weights a list of items adds to one bucket.
Total(items, bucket) ==
    IF Len(items) = 0 THEN 0
    ELSE IF Len(items) = 1 THEN (IF items[1].bucket = bucket THEN items[1].w ELSE 0)
    ELSE LET h == Len(items) \div 2
         IN  Total(SubSeq(items, 1, h), bucket) + Total(SubSeq(items, h + 1, Len(items)), bucket)

\* The (ru, ua, other, hits) tuple both scoring functions return.
Scored(items) ==
    [ru |-> Total(items, "ru"), ua |-> Total(items, "ua"), other |-> Total(items, "other"),
     hits |-> [k \in DOMAIN items |-> items[k].hit]]

\* Lines 288-326.
structured_score(entity, map, seed) ==
    Scored(DirectItems(entity.raw_attrib_qids) \o PlaceItems(entity.raw_attrib_qids, map, seed))

\* TEXT_PATTERNS (lines 78-100). A Cyrillic pattern is written in transliteration
\* after "cyr:".
TEXT_PATTERNS ==
    [ Russian |-> [en |-> <<"\\brussian\\b", "\\brussia\\b", "\\brf\\b", "\\brussian[- ]backed\\b">>,
                    ru |-> <<"\\bcyr:rossi", "\\bcyr:russk", "\\bcyr:rf\\b">>,
                    uk |-> <<"\\bcyr:rosi", "\\bcyr:rosiisk", "\\bcyr:rf\\b">>],
      Ukraine |-> [en |-> <<"\\bukrain", "\\bukraine\\b">>,
                    ru |-> <<"\\bcyr:ukrain", "\\bcyr:ukrainets", "\\bcyr:ukrainka">>,
                    uk |-> <<"\\bcyr:ukrayin", "\\bcyr:ukrayinets", "\\bcyr:ukrayinka">>],
      American |-> [en |-> <<"\\bamerican\\b", "\\bu\\.?s\\.?\\b", "\\bunited states\\b">>,
                    ru |-> <<"\\bcyr:amerikan">>,
                    uk |-> <<"\\bcyr:amerikan">>],
      Chinese |-> [en |-> <<"\\bchinese\\b", "\\bchina\\b", "\\bprc\\b">>,
                    ru |-> <<"\\bcyr:kita", "\\bcyr:knr\\b">>,
                    uk |-> <<"\\bcyr:kita", "\\bcyr:knr\\b">>] ]

\* re.search(pat, text.lower()) on the texts of the model, tabulated from the
\* patterns of TEXT_PATTERNS: the pairs (pattern, text) for which it finds a match.
Found ==
    { <<"\\brussia\\b", "Russia">>,
      <<"\\brussian\\b", "Russian Federation">>,
      <<"\\brf\\b", "RF">>,
      <<"\\brussia\\b", "a journalist from Russia">>,
      <<"\\bukrain", "Ukraine">>,
      <<"\\bukraine\\b", "Ukraine">>,
      <<"\\bamerican\\b", "American and Chinese firms in China and the United States">>,
      <<"\\bunited states\\b", "American and Chinese firms in China and the United States">>,
      <<"\\bchinese\\b", "American and Chinese firms in China and the United States">>,
      <<"\\bchina\\b", "American and Chinese firms in China and the United States">>,
      <<"\\bcyr:rossi", "cyr:Rossiya">>,
      <<"\\bcyr:rosi", "cyr:Rosiia">> }

\* The generated aliases "Russia 1", "Russia 2", ... of an entity with many names.
MaxAliases == 201
AliasName(k) == "Russia " \o ToString(k)

\* The matches of re.search on the generated aliases: \brussia\b and no other
\* pattern finds "russia <k>".
FoundAliases == { <<"\\brussia\\b", AliasName(k)>> : k \in 1..MaxAliases }

Search(pat, text) == <<pat, text>> \in Found \/ <<pat, text>> \in FoundAliases

\* The loop over the patterns of one affiliation left at its first match.
PatternHits_firstonly(name, bucket, tag, lang, text) ==
    LET pats == TEXT_PATTERNS[name][lang]
        first == {k \in DOMAIN pats : Search(pats[k], text) /\ \A j \in 1..(k - 1) : ~Search(pats[j], text)}
    IN  Concat([k \in DOMAIN pats |->
            IF k \in first
            THEN <<Item(bucket, WEIGHT_WEAK, <<"text", lang>> \o tag \o <<pats[k]>>)>>
            ELSE <<>>])

\* Lines 262-277: the patterns of one affiliation against one text.
PatternHits(name, bucket, tag, lang, text) ==
    LET pats == TEXT_PATTERNS[name][lang]
    IN  Concat([k \in DOMAIN pats |->
            IF Search(pats[k], text)
            THEN <<Item(bucket, WEIGHT_WEAK, <<"text", lang>> \o tag \o <<pats[k]>>)>>
            ELSE <<>>])

\* Lines 257-277: scan(text, lang).
scan(text, lang) ==
    IF Falsy(text) THEN <<>>
    ELSE PatternHits("Russian", "ru", <<"RU">>, lang, text)
         \o PatternHits("Ukraine", "ua", <<"UA">>, lang, text)
         \o PatternHits("American", "other", <<"OTHER", "American">>, lang, text)
         \o PatternHits("Chinese", "other", <<"OTHER", "Chinese">>, lang, text)

\* The texts of an entity without its descriptions.
TextItems_nodescription(entity) ==
    LET langs == <<"en", "ru", "uk">>
    IN  Concat([n \in DOMAIN langs |->
            LET lang == langs[n]
            IN  scan(entity.labels[lang], lang)
                \o Concat([k \in DOMAIN entity.aliases[lang] |->
                              scan(entity.aliases[lang][k], lang)])])

\* Lines 279-283: for lang in ("en", "ru", "uk"): label, description, each alias.
TextItems(entity) ==
    LET langs == <<"en", "ru", "uk">>
    IN  Concat([n \in DOMAIN langs |->
            LET lang == langs[n]
            IN  scan(entity.labels[lang], lang)
                \o scan(entity.descriptions[lang], lang)
                \o Concat([k \in DOMAIN entity.aliases[lang] |->
                              scan(entity.aliases[lang][k], lang)])])

\* Lines 250-285.
text_score(entity) == Scored(TextItems(entity))

\* Line 448: the hits kept in the detail, (s_hits + t_hits)[:200].
HITS_CAP == 200
\* The hits kept whole.
Capped_none(hits) == hits

Capped(hits) == SubSeq(hits, 1, IF Len(hits) < HITS_CAP THEN Len(hits) ELSE HITS_CAP)

\* The classification with the relations of the entity used up: they are
\* emptied once they are scored.
Classified_consuming(e, map, seed, T) ==
    LET st == structured_score(e, map, seed)
        tx == text_score(e)
        ru_score == st.ru + tx.ru
        ua_score == st.ua + tx.ua
        other_score == st.other + tx.other
    IN  [e EXCEPT
            !.raw_attrib_qids = NoRaw,
            !.ru_ua_attribution = decide_label(ru_score, ua_score, other_score, T),
            !.ru_ua_attribution_detail =
                <<[scores |-> [ru |-> ru_score, ua |-> ua_score, other |-> other_score],
                   structured_scores |-> [ru |-> st.ru, ua |-> st.ua, other |-> st.other],
                   text_scores |-> [ru |-> tx.ru, ua |-> tx.ua, other |-> tx.other],
                   hits |-> Capped(st.hits \o tx.hits),
                   policy |-> [other_is_strict |-> TRUE, other_threshold |-> T]]>>]

\* Lines 434-454: the label and the detail main() stores on an entity.
Classified(e, map, seed, T) ==
    LET st == structured_score(e, map, seed)
        tx == text_score(e)
        ru_score == st.ru + tx.ru
        ua_score == st.ua + tx.ua
        other_score == st.other + tx.other
    IN  [e EXCEPT
            !.ru_ua_attribution = decide_label(ru_score, ua_score, other_score, T),
            !.ru_ua_attribution_detail =
                <<[scores |-> [ru |-> ru_score, ua |-> ua_score, other |-> other_score],
                   structured_scores |-> [ru |-> st.ru, ua |-> st.ua, other |-> st.other],
                   text_scores |-> [ru |-> tx.ru, ua |-> tx.ua, other |-> tx.other],
                   hits |-> Capped(st.hits \o tx.hits),
                   policy |-> [other_is_strict |-> TRUE, other_threshold |-> T]]>>]

----------------------------------------------------------------------------
(* build_place_country_map, run_sparql                                     *)

\* The part of the Wikidata graph the queries see: wdt:P17 (country) and wdt:P131
\* (located in the administrative entity) of each node. Moscow, Kyiv; Boston in
\* Massachusetts in the USA; a chain Q9001 -> Q9002 -> ... -> Q9005 of containment
\* whose last node alone has a country; the countries are their own country.
\* Q7001 lies in two entities of different countries; Q7004 has one country one
\* step up and another three steps up; Q7005 and Q7006 contain each other; Q7007
\* has a country one step up and another five steps up.
WD_P17(x) ==
    CASE x = "Q649" -> {"Q159"}
      [] x = "Q1899" -> {"Q212"}
      [] x \in {"Q100", "Q771", "Q30"} -> {"Q30"}
      [] x = "Q159" -> {"Q159"}
      [] x = "Q212" -> {"Q212"}
      [] x = "Q9005" -> {"Q159"}
      [] x = "Q7002" -> {"Q159"}
      [] x = "Q7003" -> {"Q212"}
      [] x = "Q7006" -> {"Q30"}
      [] OTHER -> {}

WD_P131(x) ==
    CASE x = "Q100" -> {"Q771"}
      [] x = "Q771" -> {"Q30"}
      [] x = "Q9001" -> {"Q9002"}
      [] x = "Q9002" -> {"Q9003"}
      [] x = "Q9003" -> {"Q9004"}
      [] x = "Q9004" -> {"Q9005"}
      [] x = "Q7001" -> {"Q7002", "Q7003"}
      [] x = "Q7004" -> {"Q7003", "Q9003"}
      [] x = "Q7005" -> {"Q7006"}
      [] x = "Q7006" -> {"Q7005"}
      [] x = "Q7007" -> {"Q7003", "Q9001"}
      [] OTHER -> {}

\* One wdt:P131 step from every node of a set.
Up(S) == UNION {WD_P131(x) : x \in S}

\* The query with a fifth graph pattern, of four P131 steps.
Countries_depth4(place) ==
    UNION {WD_P17(x) : x \in {place}}
    \cup UNION {WD_P17(x) : x \in Up({place})}
    \cup UNION {WD_P17(x) : x \in Up(Up({place}))}
    \cup UNION {WD_P17(x) : x \in Up(Up(Up({place})))}
    \cup UNION {WD_P17(x) : x \in Up(Up(Up(Up({place}))))}

\* The query stopping at the nearest depth that has a country, instead of the UNION.
Countries_nearest(place) ==
    LET d0 == UNION {WD_P17(x) : x \in {place}}
        d1 == UNION {WD_P17(x) : x \in Up({place})}
        d2 == UNION {WD_P17(x) : x \in Up(Up({place}))}
        d3 == UNION {WD_P17(x) : x \in Up(Up(Up({place})))}
    IN  IF d0 # {} THEN d0 ELSE IF d1 # {} THEN d1 ELSE IF d2 # {} THEN d2 ELSE d3

\* Lines 210-233: the ?country bindings of one ?place, the UNION of the four
\* graph patterns (P17 directly, and after one, two and three P131 steps).
Countries(place) ==
    UNION {WD_P17(x) : x \in {place}}
    \cup UNION {WD_P17(x) : x \in Up({place})}
    \cup UNION {WD_P17(x) : x \in Up(Up({place}))}
    \cup UNION {WD_P17(x) : x \in Up(Up(Up({place})))}

\* Most places without any country in the graph that a list of places holds.
MaxFill == 160

\* The k-th of the places that have no country in the graph.
PlaceName(k) == "Q" \o ToString(10000 + k)

FillerNames == {PlaceName(k) : k \in 1..MaxFill}

\* The places of the graph that appear in no record of the merge specifications.
GraphPlaces == {"Q7001", "Q7002", "Q7003", "Q7004", "Q7005", "Q7006", "Q7007"}

\* The identifiers of the model that start with "Q".
QNames ==
    {q \in Range(StrOrder) : Rank("Q100") <= Rank(q) /\ Rank(q) <= Rank("Q9005")}
    \cup GraphPlaces \cup FillerNames

\* q.startswith("Q"), on the identifiers of the model.
StartsWithQ(q) == q \in QNames

\* Line 195: the filter of build_place_country_map.
ValidPlaces(qids) == SelectSeq(qids, LAMBDA q : ~Falsy(q) /\ StartsWithQ(q))

BATCH == 80

\* The slice taken one element too long.
Chunk_overlap(qids, start) ==
    SubSeq(qids, start + 1,
           IF start + BATCH + 1 < Len(qids) THEN start + BATCH + 1 ELSE Len(qids))

\* Line 203: place_qids[i:i + BATCH].
Chunk(qids, start) ==
    SubSeq(qids, start + 1, IF start + BATCH < Len(qids) THEN start + BATCH ELSE Len(qids))

\* `out` created anew for every batch: only the bindings of this batch are kept.
Accumulate_lastbatch(out, chunk) ==
    LET hit == {q \in Range(chunk) : Countries(q) # {}}
    IN  [q \in hit |-> Countries(q)]

\* Lines 236-243: the bindings of one batch added to `out`.
Accumulate(out, chunk) ==
    LET hit == {q \in Range(chunk) : Countries(q) # {}}
    IN  [q \in DOMAIN out \cup hit |->
            Get(out, q) \cup (IF q \in hit THEN Countries(q) ELSE {})]

\* run_sparql(query, retries=3, backoff=2.0).
retries == 3
backoff == 2

\* The wait growing linearly: backoff * attempt.
Pow_linear(b, n) == b * n

RECURSIVE Pow(_, _)
Pow(b, n) == IF n = 0 THEN 1 ELSE b * Pow(b, n - 1)

\* One call of sparql.query() (line 116): the `i` and the chunk of the batch whose
\* query was sent, and whether the call returned (ok) or raised.
Request(start, chunk, ok) == [start |-> start, batch |-> chunk, ok |-> ok]

\* Lines 117-118: the exception sparql.query().convert() raised, kept as last_err.
\* It is the library's exception as it came: neither run_sparql nor
\* build_place_country_map attaches anything to it.
QueryError == [exc |-> "Exception", attached |-> <<>>]

----------------------------------------------------------------------------
(* main                                                                    *)

\* The place set built from the headquarters relation alone.
PlaceSet_hqonly(rows, mg) ==
    UNION { {q \in Range(rows[mg[k]].raw_attrib_qids["P159"]) :
                ~Falsy(q) /\ StartsWithQ(q) /\ q \notin {Q_RUSSIA, Q_UKRAINE}} :
            k \in DOMAIN mg }

\* Lines 420-426: the place-like targets of all canonical entities.
PlaceSet(rows, mg) ==
    UNION { UNION { {q \in Range(rows[mg[k]].raw_attrib_qids[pid]) :
                        ~Falsy(q) /\ StartsWithQ(q) /\ q \notin {Q_RUSSIA, Q_UKRAINE}} :
                    pid \in {"P159", "P131", "P276", "P19", "P740", "P551"} } :
            k \in DOMAIN mg }

\* Lines 416-429, once the loop of merge_records_by_qid is over: the canonical
\* list is returned, the two messages are printed, the place set is built and
\* build_place_country_map is entered (it returns {} at once for an empty list).
MainMerged ==
    /\ pc = "merge" /\ i > Len(all_rows)
    /\ LET places == PlaceSet(all_rows, merged)
           qids == ValidPlaces(sorted(places))
       IN  /\ stdout' = <<<<"Loaded", Len(all_rows), Len(merged)>>,
                          <<"Resolving", Cardinality(places)>>>>
           /\ place_arg' = sorted(places)
           /\ place_qids' = qids
           /\ pc' = IF qids = <<>> THEN "classify" ELSE "resolve"
    /\ batch_start' = 0
    /\ attempt' = 0
    /\ place_country_map' = <<>>
    /\ UNCHANGED <<dl, mergeVars, hash_seed, threshold, sleeps, requests, last_err, ci,
                   counts, out_file>>

\* Lines 115-116 and 235-245: an attempt of run_sparql for the batch in flight
\* succeeds; its bindings are added and the loop moves to the next batch.
ResolveOK ==
    /\ pc = "resolve" /\ attempt < retries
    /\ requests' = Append(requests, Request(batch_start, Chunk(place_qids, batch_start), TRUE))
    /\ place_country_map' = Accumulate(place_country_map, Chunk(place_qids, batch_start))
    /\ batch_start' = batch_start + BATCH
    /\ attempt' = 0
    /\ pc' = IF batch_start + BATCH < Len(place_qids) THEN "resolve" ELSE "classify"
    /\ last_err' = <<>>
    /\ UNCHANGED <<dl, mergeVars, hash_seed, threshold, stdout, place_arg, place_qids, sleeps,
                   ci, counts, out_file>>

\* Lines 117-120: an attempt fails; run_sparql sleeps backoff ** attempt and tries
\* again, or raises after the last attempt. main() catches nothing.
ResolveFail ==
    /\ pc = "resolve" /\ attempt < retries
    /\ requests' = Append(requests, Request(batch_start, Chunk(place_qids, batch_start), FALSE))
    /\ last_err' = <<QueryError>>
    /\ sleeps' = Append(sleeps, Pow(backoff, attempt))
    /\ attempt' = attempt + 1
    /\ pc' = IF attempt + 1 < retries THEN "resolve" ELSE "crashed"
    /\ UNCHANGED <<dl, mergeVars, hash_seed, threshold, stdout, place_arg, place_qids,
                   batch_start, place_country_map, ci, counts, out_file>>

\* The classification step with the index read by indexing a defaultdict, which
\* inserts an empty set for every place it does not hold.
ClassifyEntity_inserting ==
    /\ pc = "classify" /\ ci <= Len(merged)
    /\ LET e == Classified(all_rows[merged[ci]], place_country_map, hash_seed, threshold)
           looked == UNION {Range(e.raw_attrib_qids[pid]) : pid \in location_like}
       IN  /\ all_rows' = [all_rows EXCEPT ![merged[ci]] = e]
           /\ counts' = [counts EXCEPT ![e.ru_ua_attribution] = @ + 1]
           /\ place_country_map' =
                  [q \in DOMAIN place_country_map \cup looked |-> Get(place_country_map, q)]
    /\ ci' = ci + 1
    /\ UNCHANGED <<pc, dl, in_rows, merged, i, result, prev_result, pass_no, hash_seed,
                   threshold, stdout, place_arg, place_qids, batch_start, attempt, sleeps,
                   requests, last_err, out_file>>

\* Lines 433-456: one iteration of `for e in merged`.
ClassifyEntity ==
    /\ pc = "classify" /\ ci <= Len(merged)
    /\ LET e == Classified(all_rows[merged[ci]], place_country_map, hash_seed, threshold)
       IN  /\ all_rows' = [all_rows EXCEPT ![merged[ci]] = e]
           /\ counts' = [counts EXCEPT ![e.ru_ua_attribution] = @ + 1]
    /\ ci' = ci + 1
    /\ UNCHANGED <<pc, dl, in_rows, merged, i, result, prev_result, pass_no, hash_seed,
                   threshold, stdout, place_arg, place_qids, batch_start, attempt, sleeps,
                   requests, last_err, place_country_map, out_file>>

\* Lines 459-461: write_jsonl(args.out, merged) and the two closing messages.
WriteOutput ==
    /\ pc = "classify" /\ ci > Len(merged)
    /\ out_file' = Values(all_rows, merged)
    /\ stdout' = stdout \o <<<<"Wrote">>, <<"Counts", counts>>>>
    /\ pc' = "done"
    /\ UNCHANGED <<dl, mergeVars, hash_seed, threshold, place_arg, place_qids, batch_start,
                   attempt, sleeps, requests, last_err, place_country_map, ci, counts>>

\* Most rows in the input files of a run.
MaxInputRows == 2

\* --other-threshold: the default of line 405, and 0.
DefaultThreshold == 4
Thresholds == {0, DefaultThreshold}

\* The evidence a drawn row can carry: relation targets and an English description.
Evidence(raw, desc) == [raw |-> raw, desc |-> desc]
EvidenceChoices ==
    { Evidence(NoRaw, NULL),
      Evidence([NoRaw EXCEPT !["P27"] = <<"Q159">>], "a journalist from Russia"),
      Evidence([NoRaw EXCEPT !["P27"] = <<"Q159">>, !["P159"] = <<"Q212">>], NULL),
      Evidence([NoRaw EXCEPT !["P159"] = <<"Q100">>], NULL),
      Evidence([NoRaw EXCEPT !["P27"] = <<"Q30">>], NULL),
      Evidence([NoRaw EXCEPT !["P131"] = <<"Q100">>, !["P159"] = <<"Q100">>], NULL),
      Evidence(NoRaw, "American and Chinese firms in China and the United States"),
      Evidence([NoRaw EXCEPT !["P19"] = <<"Q649">>], "Ukraine"),
      Evidence([NoRaw EXCEPT !["P159"] = <<"Q30">>], NULL),
      Evidence([NoRaw EXCEPT !["P131"] = <<"Q9001">>, !["P276"] = <<"Q9002">>], NULL) }

\* Input rows: every evidence under two identifiers, and a row without identifier.
InputPool ==
    { Record(q, "wikidata_sparql", NoLang, [NoLang EXCEPT !["en"] = ev.desc],
             NoAliases, <<>>, ev.raw) : q \in {"Q1001", "Q1002"}, ev \in EvidenceChoices }
    \cup
    { Record(NULL, "wikipedia_navboxes", [NoLang EXCEPT !["en"] = "Russia"], NoLang,
             NoAliases, <<>>, [NoRaw EXCEPT !["P27"] = <<"Q159">>]) }

\* main() after the input files are read (lines 409-414).
Init ==
    /\ pc = "merge"
    /\ dl = NoDecide
    /\ in_rows \in UNION {[1..n -> InputPool] : n \in 0..MaxInputRows}
    /\ all_rows = in_rows
    /\ merged = <<>>
    /\ i = 1
    /\ result = <<>>
    /\ prev_result = <<>>
    /\ pass_no = 1
    /\ hash_seed \in HashSeeds
    /\ threshold \in Thresholds
    /\ stdout = <<>>
    /\ place_arg = <<>>
    /\ place_qids = <<>>
    /\ batch_start = 0
    /\ attempt = 0
    /\ sleeps = <<>>
    /\ requests = <<>>
    /\ last_err = <<>>
    /\ place_country_map = <<>>
    /\ ci = 1
    /\ counts = NoCounts
    /\ out_file = <<>>

Next ==
    \/ MergeSkip \/ MergeFirst \/ MergeDup
    \/ MainMerged \/ ResolveOK \/ ResolveFail \/ ClassifyEntity \/ WriteOutput

Spec == Init /\ [][Next]_vars

\* The detail main() stored on a classified entity.
DetailOf(e) == e.ru_ua_attribution_detail[1]

\* C4: under the default policy, every entity labelled "other" has A-score 0,
\* B-score 0 and at least one direct (STRONG) other-country structured hit.
C4_OtherOnlyOnDirectEvidence ==
    threshold = DefaultThreshold =>
        \A k \in DOMAIN all_rows :
            all_rows[k].ru_ua_attribution = "other" =>
                /\ DetailOf(all_rows[k]).scores.ru = 0
                /\ DetailOf(all_rows[k]).scores.ua = 0
                /\ \E n \in DOMAIN DetailOf(all_rows[k]).hits :
                       LET h == DetailOf(all_rows[k]).hits[n]
                       IN  h[2] = "direct" /\ h[3] = "OTHER"

\* Number of rows of a list that lack an identifier.
Dropped(rows) == Cardinality({k \in DOMAIN rows : Falsy(rows[k].qid)})

IsClassified(e) == e.ru_ua_attribution # NULL

\* C17: under an invalid configuration (a strictness threshold <= 0) the run fails
\* before any entity is processed: nothing is merged, labelled or written.
C17_InvalidConfigurationFailsFast ==
    threshold <= 0 =>
        /\ merged = <<>>
        /\ \A k \in DOMAIN all_rows : ~IsClassified(all_rows[k])
        /\ out_file = <<>>

\* C18: the score triple and the hit list stored for an entity are those that
\* every evaluation of structured_score and text_score on the same entity and
\* index yields, in whatever process it runs: the same hits in the same order.
C18_ScoringPure ==
    \A k \in DOMAIN all_rows :
        IsClassified(all_rows[k]) =>
            \A seed \in HashSeeds :
                LET st == structured_score(all_rows[k], place_country_map, seed)
                    tx == text_score(all_rows[k])
                IN  /\ DetailOf(all_rows[k]).structured_scores =
                           [ru |-> st.ru, ua |-> st.ua, other |-> st.other]
                    /\ DetailOf(all_rows[k]).text_scores =
                           [ru |-> tx.ru, ua |-> tx.ua, other |-> tx.other]
                    /\ DetailOf(all_rows[k]).hits = Capped(st.hits \o tx.hits)

\* C19: each (relation kind, target) item is weighted through one route: no item
\* of a classified entity has both a direct (STRONG) hit and a place-country
\* (MEDIUM) hit.
C19_OneRoutePerItem ==
    \A k \in DOMAIN all_rows :
        IsClassified(all_rows[k]) =>
            LET hits == DetailOf(all_rows[k]).hits
            IN  \A a, b \in DOMAIN hits :
                    ~ /\ hits[a][2] = "direct"
                      /\ hits[b][2] = "place_country"
                      /\ hits[a][1] = hits[b][1]
                      /\ hits[a][4] = hits[b][4]

----------------------------------------------------------------------------
(* SpecResolve: build_place_country_map on bounded lists of places          *)

\* The first n places without a country, in the order sorted() gives them.
Fillers(n) == [k \in 1..n |-> PlaceName(k)]

\* What stands before and after the places without a country in a list: nothing;
\* the places of the graph, in sorted order as main() passes them; and two lists
\* as only another caller could pass them, one with entries the filter of line
\* 195 drops and one with a place twice.
ListShapes ==
    { [head |-> <<>>, tail |-> <<>>],
      [head |-> <<"Q100">>,
       tail |-> <<"Q1899", "Q649", "Q7001", "Q7004", "Q7005", "Q7007", "Q9001", "Q9002">>],
      [head |-> <<"Q7001", NULL, "", "P131">>, tail |-> <<"Q9002">>],
      [head |-> <<"Q7001">>, tail |-> <<"Q7001", "Q9002">>] }

\* How many places without a country a list holds: none, one, and the numbers
\* next to the size of one batch and to the largest number.
FillCounts == {0, 1, BATCH - 1, BATCH, MaxFill - 1, MaxFill}

PlaceLists == {sh.head \o Fillers(n) \o sh.tail : sh \in ListShapes, n \in FillCounts}

\* build_place_country_map(place_qids) after lines 195-201: the list is filtered,
\* {} is returned at once for an empty list, else `out` is empty and the loop starts.
InitResolve ==
    /\ dl = NoDecide
    /\ MergeIdle
    /\ hash_seed = "asc"
    /\ threshold = DefaultThreshold
    /\ stdout = <<>>
    /\ place_arg \in PlaceLists
    /\ place_qids = ValidPlaces(place_arg)
    /\ pc = IF ValidPlaces(place_arg) = <<>> THEN "classify" ELSE "resolve"
    /\ batch_start = 0
    /\ attempt = 0
    /\ sleeps = <<>>
    /\ requests = <<>>
    /\ last_err = <<>>
    /\ place_country_map = <<>>
    /\ ci = 1
    /\ counts = NoCounts
    /\ out_file = <<>>

NextResolve == ResolveOK \/ ResolveFail

SpecResolve == InitResolve /\ [][NextResolve]_vars

\* build_place_country_map has returned its map to the caller.
Returned == pc = "classify"

RECURSIVE Chains(_, _)
\* The chains of exactly d containment (P131) steps that start at a place.
Chains(place, d) ==
    IF d = 0 THEN {<<place>>}
    ELSE UNION { {Append(ch, y) : y \in WD_P131(ch[Len(ch)])} : ch \in Chains(place, d - 1) }

\* The countries (P17) of the ends of the chains of exactly d steps.
CountriesAt(place, d) == UNION {WD_P17(ch[Len(ch)]) : ch \in Chains(place, d)}

\* C11: build_place_country_map never follows P131 more than 3 steps from a place:
\* every country it gives a place lies at the end of a chain of at most 3 steps; a
\* place that reaches a country only by chains of 4 or more steps has the empty
\* country set when the map is returned; and this is no error: a run whose
\* requests all succeeded does not end with an exception.
C11_DepthAtMostThree ==
    /\ \A q \in DOMAIN place_country_map :
           \A c \in place_country_map[q] : \E d \in 0..3 : c \in CountriesAt(q, d)
    /\ Returned =>
           \A q \in Range(place_qids) :
               (\A d \in 0..3 : CountriesAt(q, d) = {}) => Get(place_country_map, q) = {}
    /\ (\A k \in DOMAIN requests : requests[k].ok) => pc # "crashed"

C11_Witness ==
    /\ Returned
    /\ \A k \in DOMAIN requests : requests[k].ok
    /\ "Q9001" \in Range(place_qids)
    /\ CountriesAt("Q9001", 4) = {"Q159"}
    /\ Get(place_country_map, "Q9001") = {}
    /\ Get(place_country_map, "Q9002") = {"Q159"}

\* C12: for every queried place the resolved country set is exactly the union over
\* the depths d = 0..3 of the countries reached by d P131 steps and one P17 step.
C12_UnionOverDepths ==
    /\ \A q \in DOMAIN place_country_map :
           place_country_map[q] = UNION {CountriesAt(q, d) : d \in 0..3}
    /\ Returned =>
           \A q \in Range(place_qids) :
               Get(place_country_map, q) = UNION {CountriesAt(q, d) : d \in 0..3}

C12_Witness ==
    /\ Returned
    /\ Get(place_country_map, "Q7001") = {"Q159", "Q212"}
    /\ CountriesAt("Q7004", 1) = {"Q212"} /\ CountriesAt("Q7004", 3) = {"Q159"}
    /\ Get(place_country_map, "Q7004") = {"Q159", "Q212"}
    /\ Get(place_country_map, "Q7007") = {"Q212"}
    /\ Get(place_country_map, "Q100") = {"Q30"}

\* The valid place identifiers of a list: non-empty strings that start with "Q".
ValidIds(list) == {q \in Range(list) : ~Falsy(q) /\ StartsWithQ(q)}

NoDuplicates(list) == Cardinality(Range(list)) = Len(list)

\* The batches (by their `i`) in which an identifier was sent.
BatchesWith(q) == {requests[k].start : k \in {n \in DOMAIN requests : q \in Range(requests[n].batch)}}

\* C13: every request carries a batch of at least 1 and at most 80 identifiers, all
\* of them valid identifiers of the list; and when the function has returned, for a
\* list without duplicates, every valid identifier of the list was sent in exactly
\* one batch, once.
C13_BatchesOfAtMost80 ==
    /\ \A k \in DOMAIN requests : Len(requests[k].batch) \in 1..80
    /\ UNION {Range(requests[k].batch) : k \in DOMAIN requests} \subseteq ValidIds(place_arg)
    /\ (Returned /\ NoDuplicates(place_arg)) =>
           /\ \A q \in ValidIds(place_arg) : Cardinality(BatchesWith(q)) = 1
           /\ \A k \in DOMAIN requests : NoDuplicates(requests[k].batch)

C13_Witness ==
    /\ Returned /\ NoDuplicates(place_arg)
    /\ Len(place_arg) > Len(place_qids)
    /\ Len(place_qids) > 2 * BATCH
    /\ Cardinality({requests[k].start : k \in DOMAIN requests}) = 3
    /\ \E k \in DOMAIN requests : Len(requests[k].batch) < BATCH

\* The batches whose request succeeded, in the order they were processed.
OkBatches ==
    LET oks == SelectSeq(requests, LAMBDA r : r.ok)
    IN  [k \in DOMAIN oks |-> oks[k].batch]

RECURSIVE AccumulateAll(_, _)
\* The bindings of a list of batches added to `out`, batch after batch.
AccumulateAll(out, batches) ==
    IF Len(batches) = 0 THEN out
    ELSE AccumulateAll(Accumulate(out, Head(batches)), Tail(batches))

\* The orders in which n batches can be processed.
Orders(n) == {f \in [1..n -> 1..n] : \A a, b \in 1..n : a # b => f[a] # f[b]}

\* The countries the bindings of one batch report for a place.
Reported(chunk, q) == IF q \in Range(chunk) THEN Countries(q) ELSE {}

\* C14: after every batch whose request succeeded, the map accumulated from the
\* batches processed so far is the map their results give in every other order of
\* processing, and the country set of each place is the union of the countries
\* the batches reported for it.
C14_AccumulationCommutative ==
    (requests # <<>> /\ requests[Len(requests)].ok) =>
        LET bs == OkBatches
        IN  /\ \A f \in Orders(Len(bs)) :
                   AccumulateAll(<<>>, [k \in DOMAIN bs |-> bs[f[k]]]) = place_country_map
            /\ \A q \in UNION {Range(bs[k]) : k \in DOMAIN bs} :
                   Get(place_country_map, q) = UNION {Reported(bs[k], q) : k \in DOMAIN bs}

C14_Witness ==
    /\ Returned
    /\ Len(OkBatches) = 3
    /\ Cardinality(BatchesWith("Q7001")) = 2
    /\ Get(place_country_map, "Q7001") = {"Q159", "Q212"}
    /\ "Q7001" \in Range(OkBatches[1]) /\ "Q9002" \in Range(OkBatches[3])
    /\ Get(place_country_map, "Q9002") = {"Q159"}

\* The attempts made before request k by the same call of run_sparql (each batch
\* is one call).
AttemptsBefore(k) == Cardinality({j \in 1..(k - 1) : requests[j].start = requests[k].start})

\* The positions of the failed requests, in order.
FailedRequests == SelectSeq([k \in DOMAIN requests |-> k], LAMBDA k : ~requests[k].ok)

\* C15: run_sparql makes at most 3 attempts; no attempt follows a successful one;
\* after each failed attempt it waits 1, 2 and 4 seconds (backoff ** attempt); and
\* the error is raised exactly when the third attempt of a call has failed.
C15_RetryWithBackoff ==
    /\ \A k \in DOMAIN requests :
           /\ AttemptsBefore(k) < 3
           /\ \A j \in 1..(k - 1) :
                  requests[j].start = requests[k].start => ~requests[j].ok
    /\ Len(sleeps) = Len(FailedRequests)
    /\ \A m \in DOMAIN sleeps : sleeps[m] = <<1, 2, 4>>[AttemptsBefore(FailedRequests[m]) + 1]
    /\ pc = "crashed" <=>
           /\ Len(requests) >= 3
           /\ ~requests[Len(requests)].ok
           /\ AttemptsBefore(Len(requests)) = 2
    /\ pc = "crashed" => last_err = <<QueryError>>
    /\ (Returned /\ requests # <<>>) => requests[Len(requests)].ok

C15_Witness ==
    /\ pc = "crashed"
    /\ sleeps = <<1, 2, 1, 2, 4>>
    /\ requests[3].ok /\ AttemptsBefore(3) = 2
    /\ requests[4].start = BATCH

\* C16: when the retries of a batch are exhausted, the error that reaches the
\* caller carries the identifiers of the batch that failed.
C16_FailureCarriesBatch ==
    pc = "crashed" =>
        Range(Chunk(place_qids, batch_start)) \subseteq Range(last_err[1].attached)

----------------------------------------------------------------------------
(* SpecText: the classification loop of main() on entities that carry texts  *)

\* The canonical entities of the specification: one row per run, without
\* relations, with labels, descriptions and aliases in the three languages.
TextPool ==
    { FirstSeen(Record("Q1001", "wikidata_sparql",
                       [en |-> len, ru |-> lru, uk |-> luk],
                       [NoLang EXCEPT !["en"] = den],
                       [NoAliases EXCEPT !["en"] = aen],
                       <<>>, NoRaw)) :
        len \in {NULL, "Russia", "Rossiya"},
        lru \in {NULL, "Russia", "cyr:Rossiya"},
        luk \in {NULL, "cyr:Rosiia"},
        den \in {NULL, "", "Ukraine",
                 "American and Chinese firms in China and the United States"},
        aen \in {<<>>, <<"RF", "Russian Federation">>} }

\* main() at line 432: one row was read and merged, it names no place, and
\* build_place_country_map has returned {}.
InitText ==
    /\ pc = "classify"
    /\ dl = NoDecide
    /\ all_rows \in {<<e>> : e \in TextPool}
    /\ in_rows = [k \in DOMAIN all_rows |-> [all_rows[k] EXCEPT !._sources = <<>>]]
    /\ merged = <<1>>
    /\ i = 2
    /\ result = <<>>
    /\ prev_result = <<>>
    /\ pass_no = 1
    /\ hash_seed \in HashSeeds
    /\ threshold \in Thresholds
    /\ stdout = <<<<"Loaded", 1, 1>>, <<"Resolving", 0>>>>
    /\ place_arg = <<>>
    /\ place_qids = <<>>
    /\ batch_start = 0
    /\ attempt = 0
    /\ sleeps = <<>>
    /\ requests = <<>>
    /\ last_err = <<>>
    /\ place_country_map = <<>>
    /\ ci = 1
    /\ counts = NoCounts
    /\ out_file = <<>>

NextText == ClassifyEntity \/ WriteOutput

SpecText == InitText /\ [][NextText]_vars

\* The texts of an entity: language, field, position and the text.
TextsOf(e) ==
    {<<lang, "label", 0, e.labels[lang]>> : lang \in {l \in Langs : ~Falsy(e.labels[l])}}
    \cup {<<lang, "description", 0, e.descriptions[lang]>> :
              lang \in {l \in Langs : ~Falsy(e.descriptions[l])}}
    \cup UNION {{<<lang, "alias", k, e.aliases[lang][k]>> :
                     k \in {n \in DOMAIN e.aliases[lang] : ~Falsy(e.aliases[lang][n])}} :
                lang \in Langs}

\* The matches of the patterns of some affiliations against the texts of an entity.
Matches(e, names) ==
    {<<t, name, pat>> \in
         TextsOf(e) \X names
             \X UNION {Range(TEXT_PATTERNS[n][l]) : n \in names, l \in Langs} :
       /\ pat \in Range(TEXT_PATTERNS[name][t[1]])
       /\ Search(pat, t[4])}

\* The text hits recorded for one bucket.
TextHits(e, tag) ==
    {n \in DOMAIN DetailOf(e).hits :
        DetailOf(e).hits[n][1] = "text" /\ DetailOf(e).hits[n][3] = tag}

\* C20: for each bucket the text score of a classified entity is WEAK times the
\* number of text hits recorded for the bucket, and the hits are one per match of
\* a pattern of the text's language against a label, a description or an alias;
\* texts that no pattern matches add nothing.
C20_TextScoreCountsMatches ==
    \A k \in DOMAIN all_rows :
        IsClassified(all_rows[k]) =>
            LET e == all_rows[k]
                tx == DetailOf(e).text_scores
            IN  /\ tx.ru = WEIGHT_WEAK * Cardinality(TextHits(e, "RU"))
                /\ tx.ua = WEIGHT_WEAK * Cardinality(TextHits(e, "UA"))
                /\ tx.other = WEIGHT_WEAK * Cardinality(TextHits(e, "OTHER"))
                /\ Cardinality(TextHits(e, "RU")) = Cardinality(Matches(e, {"Russian"}))
                /\ Cardinality(TextHits(e, "UA")) = Cardinality(Matches(e, {"Ukraine"}))
                /\ Cardinality(TextHits(e, "OTHER")) =
                       Cardinality(Matches(e, {"American", "Chinese"}))

C20_Witness ==
    /\ pc = "done"
    /\ out_file[1].labels = [en |-> "Rossiya", ru |-> "Russia", uk |-> "cyr:Rosiia"]
    /\ out_file[1].descriptions["en"] = "Ukraine"
    /\ out_file[1].aliases["en"] = <<"RF", "Russian Federation">>
    /\ DetailOf(out_file[1]).text_scores = [ru |-> 3, ua |-> 2, other |-> 0]
    /\ Len(DetailOf(out_file[1]).hits) = 5

----------------------------------------------------------------------------
(* SpecScore: main() from the end of the merge on, with one canonical entity *)

\* The relations of the canonical entities of the specification.
ScoreRelations ==
    { NoRaw,
      [NoRaw EXCEPT !["P27"] = <<"Q159">>],
      [NoRaw EXCEPT !["P27"] = <<"Q159">>, !["P159"] = <<"Q212">>],
      [NoRaw EXCEPT !["P159"] = <<"Q100">>],
      [NoRaw EXCEPT !["P27"] = <<"Q30">>],
      [NoRaw EXCEPT !["P159"] = <<"Q30">>],
      [NoRaw EXCEPT !["P131"] = <<"Q100">>, !["P159"] = <<"Q100">>],
      [NoRaw EXCEPT !["P131"] = <<"Q9001">>, !["P276"] = <<"Q9002">>] }

\* The English descriptions of the canonical entities of the specification.
ScoreDescriptions == {NULL, "a journalist from Russia", "Ukraine"}

\* The numbers of generated aliases: below, at and above the cap of the hit list.
AliasCounts == {HITS_CAP - 2, HITS_CAP - 1, MaxAliases}

\* Entities with many English aliases, with and without a citizenship.
ManyNames ==
    { FirstSeen(Record("Q1001", "wikidata_sparql", NoLang, NoLang,
                       [NoAliases EXCEPT !["en"] = [k \in 1..n |-> AliasName(k)]], <<>>, raw)) :
        n \in AliasCounts,
        raw \in {NoRaw, [NoRaw EXCEPT !["P27"] = <<"Q159">>],
                 [NoRaw EXCEPT !["P27"] = <<"Q159">>, !["P19"] = <<"Q100">>]} }

\* The canonical entities: every relation choice with every description, and the
\* entities with many names.
ScorePool ==
    { FirstSeen(Record("Q1001", "wikidata_sparql", NoLang, [NoLang EXCEPT !["en"] = d],
                       NoAliases, <<>>, raw)) :
        raw \in ScoreRelations, d \in ScoreDescriptions }
    \cup ManyNames

\* main() at line 416, when merge_records_by_qid has gone through its one row.
InitScore ==
    /\ pc = "merge"
    /\ dl = NoDecide
    /\ all_rows \in {<<e>> : e \in ScorePool}
    /\ in_rows = [k \in DOMAIN all_rows |-> [all_rows[k] EXCEPT !._sources = <<>>]]
    /\ merged = <<1>>
    /\ i = 2
    /\ result = <<>>
    /\ prev_result = <<>>
    /\ pass_no = 1
    /\ hash_seed \in HashSeeds
    /\ threshold \in Thresholds
    /\ stdout = <<>>
    /\ place_arg = <<>>
    /\ place_qids = <<>>
    /\ batch_start = 0
    /\ attempt = 0
    /\ sleeps = <<>>
    /\ requests = <<>>
    /\ last_err = <<>>
    /\ place_country_map = <<>>
    /\ ci = 1
    /\ counts = NoCounts
    /\ out_file = <<>>

NextScore == MainMerged \/ ResolveOK \/ ResolveFail \/ ClassifyEntity \/ WriteOutput

SpecScore == InitScore /\ [][NextScore]_vars

\* An entity whose evidence is exactly the given relations and English
\* description: no label, no other description, no alias.
HasOnly(e, raw, desc) ==
    /\ e.raw_attrib_qids = raw
    /\ e.labels = NoLang
    /\ e.descriptions = [NoLang EXCEPT !["en"] = desc]
    /\ e.aliases = NoAliases

Triple(a, b, o) == [ru |-> a, ua |-> b, other |-> o]

\* C21: an entity whose only evidence is citizenship -> Russia and the description
\* "a journalist from Russia" has structured scores (4, 0, 0), text scores
\* (1, 0, 0), final scores (5, 0, 0) and the label Russian.
C21_Scenario1 ==
    \A k \in DOMAIN all_rows :
        (/\ IsClassified(all_rows[k])
         /\ HasOnly(all_rows[k], [NoRaw EXCEPT !["P27"] = <<"Q159">>],
                    "a journalist from Russia")) =>
            /\ DetailOf(all_rows[k]).structured_scores = Triple(4, 0, 0)
            /\ DetailOf(all_rows[k]).text_scores = Triple(1, 0, 0)
            /\ DetailOf(all_rows[k]).scores = Triple(5, 0, 0)
            /\ all_rows[k].ru_ua_attribution = "Russian"

C21_Witness ==
    /\ pc = "done"
    /\ HasOnly(out_file[1], [NoRaw EXCEPT !["P27"] = <<"Q159">>], "a journalist from Russia")
    /\ out_file[1].ru_ua_attribution = "Russian"
    /\ DetailOf(out_file[1]).scores.ru = 5

\* C22: an entity with citizenship -> Russia and headquarters -> Ukraine (the
\* country itself) and no other evidence scores exactly Russia 4, Ukraine 4 and
\* is labelled mixed.
C22_Scenario2 ==
    \A k \in DOMAIN all_rows :
        (/\ IsClassified(all_rows[k])
         /\ HasOnly(all_rows[k],
                    [NoRaw EXCEPT !["P27"] = <<"Q159">>, !["P159"] = <<"Q212">>], NULL)) =>
            /\ DetailOf(all_rows[k]).scores = Triple(4, 4, 0)
            /\ all_rows[k].ru_ua_attribution = "mixed"

C22_Witness ==
    /\ pc = "done"
    /\ HasOnly(out_file[1], [NoRaw EXCEPT !["P27"] = <<"Q159">>, !["P159"] = <<"Q212">>], NULL)
    /\ DetailOf(out_file[1]).scores = Triple(4, 4, 0)
    /\ Len(DetailOf(out_file[1]).hits) = 2

\* C23: with T = 4, an entity whose only evidence is headquarters -> a place that
\* the index resolves only to the USA has Other score 2 and is labelled mixed.
C23_Scenario3 ==
    \A k \in DOMAIN all_rows :
        (/\ IsClassified(all_rows[k])
         /\ threshold = 4
         /\ HasOnly(all_rows[k], [NoRaw EXCEPT !["P159"] = <<"Q100">>], NULL)
         /\ Get(place_country_map, "Q100") = {"Q30"}) =>
            /\ DetailOf(all_rows[k]).scores = Triple(0, 0, 2)
            /\ all_rows[k].ru_ua_attribution = "mixed"

C23_Witness ==
    /\ pc = "done" /\ threshold = 4
    /\ HasOnly(out_file[1], [NoRaw EXCEPT !["P159"] = <<"Q100">>], NULL)
    /\ place_country_map = [q \in {"Q100"} |-> {"Q30"}]
    /\ DetailOf(out_file[1]).scores.other = 2
    /\ out_file[1].ru_ua_attribution = "mixed"

\* C24: with T = 4, an entity whose only evidence is citizenship -> the USA has
\* Other score 4 and is labelled other.
C24_Scenario4 ==
    \A k \in DOMAIN all_rows :
        (/\ IsClassified(all_rows[k])
         /\ threshold = 4
         /\ HasOnly(all_rows[k], [NoRaw EXCEPT !["P27"] = <<"Q30">>], NULL)) =>
            /\ DetailOf(all_rows[k]).scores = Triple(0, 0, 4)
            /\ all_rows[k].ru_ua_attribution = "other"

C24_Witness ==
    /\ pc = "done" /\ threshold = 4
    /\ HasOnly(out_file[1], [NoRaw EXCEPT !["P27"] = <<"Q30">>], NULL)
    /\ DetailOf(out_file[1]).hits = <<<<"P27", "direct", "OTHER", "Q30">>>>
    /\ out_file[1].ru_ua_attribution = "other"

\* The weight and the bucket a hit stands for, read off the hit itself.
HitWeight(h) ==
    IF h[1] = "text" THEN 1 ELSE IF h[2] = "direct" THEN 4 ELSE 2

HitBucket(h) == IF h[3] = "RU" THEN "ru" ELSE IF h[3] = "UA" THEN "ua" ELSE "other"

RECURSIVE WeightOf(_, _)
\* The sum of the weights of the hits of one bucket.
WeightOf(hits, bucket) ==
    IF Len(hits) = 0 THEN 0
    ELSE IF Len(hits) = 1
    THEN (IF HitBucket(hits[1]) = bucket THEN HitWeight(hits[1]) ELSE 0)
    ELSE LET h == Len(hits) \div 2
         IN  WeightOf(SubSeq(hits, 1, h), bucket)
             + WeightOf(SubSeq(hits, h + 1, Len(hits)), bucket)

\* The full hit sequence of an entity: structured hits, then text hits.
FullHits(e) == structured_score(e, place_country_map, hash_seed).hits \o text_score(e).hits

\* C25: the hit list of the detail is a prefix of the full hit sequence
\* (structured hits, then text hits) of at most 200 entries, and the scores are
\* the weights of the full sequence, not of the kept prefix.
C25_HitsCappedScoresNot ==
    \A k \in DOMAIN all_rows :
        IsClassified(all_rows[k]) =>
            LET d == DetailOf(all_rows[k])
                full == FullHits(all_rows[k])
            IN  /\ Len(d.hits) <= 200
                /\ Len(d.hits) <= Len(full)
                /\ d.hits = SubSeq(full, 1, Len(d.hits))
                /\ d.scores = Triple(WeightOf(full, "ru"), WeightOf(full, "ua"),
                                     WeightOf(full, "other"))

C25_Witness ==
    /\ pc = "done"
    /\ Len(FullHits(out_file[1])) > 200
    /\ Len(DetailOf(out_file[1]).hits) = 200
    /\ DetailOf(out_file[1]).hits[1][2] = "direct"
    /\ DetailOf(out_file[1]).scores.ru > 200

\* The place-like targets of an entity that the index does not hold.
AbsentPlaces(e) ==
    UNION {Range(e.raw_attrib_qids[pid]) : pid \in location_like} \ DOMAIN place_country_map

\* C27: once build_place_country_map has returned, no step changes the index, and
\* the scoring of an entity adds no place hit for a place the index does not hold.
C27_IndexReadOnly ==
    [][Returned =>
        /\ place_country_map' = place_country_map
        /\ ci' = ci + 1 =>
              LET e == all_rows'[merged[ci]]
              IN  \A n \in DOMAIN DetailOf(e).hits :
                      DetailOf(e).hits[n][2] = "place_country" =>
                          DetailOf(e).hits[n][4] \notin AbsentPlaces(e)]_vars

C27_Witness ==
    /\ pc = "done"
    /\ DOMAIN place_country_map # {}
    /\ AbsentPlaces(out_file[1]) # {}
    /\ \E n \in DOMAIN DetailOf(out_file[1]).hits :
           DetailOf(out_file[1]).hits[n][2] = "place_country"

----------------------------------------------------------------------------
(* SpecPipeline: main() on a few rows of two identifiers *)

MaxPipeRows == 3

\* The evidence of the rows: a citizenship with a description, a headquarters in
\* a city, and a headquarters in Ukraine itself with an administrative unit and
\* an empty target.
PipeEvidence ==
    { Evidence([NoRaw EXCEPT !["P27"] = <<"Q159">>], "a journalist from Russia"),
      Evidence([NoRaw EXCEPT !["P159"] = <<"Q100">>], NULL),
      Evidence([NoRaw EXCEPT !["P159"] = <<"Q212">>, !["P131"] = <<"", "Q9002">>], "Ukraine") }

\* Input rows: every evidence under two identifiers, and a row without identifier.
PipePool ==
    { Record(q, "wikidata_sparql", NoLang, [NoLang EXCEPT !["en"] = ev.desc],
             NoAliases, <<>>, ev.raw) : q \in {"Q1001", "Q1002"}, ev \in PipeEvidence }
    \cup
    { Record(NULL, "wikipedia_navboxes", [NoLang EXCEPT !["en"] = "Russia"], NoLang,
             NoAliases, <<>>, [NoRaw EXCEPT !["P19"] = <<"Q649">>]) }

\* main() after the input files are read (lines 409-414).
InitPipeline ==
    /\ pc = "merge"
    /\ dl = NoDecide
    /\ in_rows \in UNION {[1..n -> PipePool] : n \in 0..MaxPipeRows}
    /\ all_rows = in_rows
    /\ merged = <<>>
    /\ i = 1
    /\ result = <<>>
    /\ prev_result = <<>>
    /\ pass_no = 1
    /\ MainIdle

NextPipeline ==
    \/ MergeSkip \/ MergeFirst \/ MergeDup
    \/ MainMerged \/ ResolveOK \/ ResolveFail \/ ClassifyEntity \/ WriteOutput

SpecPipeline == InitPipeline /\ [][NextPipeline]_vars

\* C28: after the merge, a step changes no field of any record except that the
\* classification step adds ru_ua_attribution and ru_ua_attribution_detail to the
\* one canonical entity it is at, which had none before; when the output is
\* written every canonical entity has been labelled, each counted once.
C28_OnlyLabelAndDetailAdded ==
    [][pc # "merge" =>
        /\ \A k \in DOMAIN all_rows :
              IF ci' = ci + 1 /\ k = merged[ci]
              THEN /\ ~IsClassified(all_rows[k]) /\ all_rows[k].ru_ua_attribution_detail = <<>>
                   /\ IsClassified(all_rows'[k]) /\ all_rows'[k].ru_ua_attribution_detail # <<>>
                   /\ all_rows'[k] =
                         [all_rows[k] EXCEPT
                             !.ru_ua_attribution = all_rows'[k].ru_ua_attribution,
                             !.ru_ua_attribution_detail = all_rows'[k].ru_ua_attribution_detail]
              ELSE all_rows'[k] = all_rows[k]
        /\ merged' = merged
        /\ pc' = "done" =>
              /\ \A n \in DOMAIN out_file' : IsClassified(out_file'[n])
              /\ \A l \in DOMAIN counts' :
                    counts'[l] = Cardinality({n \in DOMAIN out_file' :
                                                out_file'[n].ru_ua_attribution = l})]_vars

C28_Witness ==
    /\ pc = "done"
    /\ Len(out_file) = 2
    /\ Len(in_rows) = 3
    /\ out_file[1].ru_ua_attribution # out_file[2].ru_ua_attribution
    /\ \E k \in DOMAIN out_file : Len(out_file[k]._sources) = 2

\* The targets of the six place-like relations of all canonical entities.
PlaceTargets ==
    UNION { Range(all_rows[merged[n]].raw_attrib_qids[pid]) :
            n \in DOMAIN merged, pid \in {"P159", "P131", "P276", "P19", "P740", "P551"} }

\* The resolver has been called: main() is past line 429 or inside the call.
Submitted == pc \in {"resolve", "classify", "done", "crashed"}

\* C26 as stated: once the index is being built, every target of a place-like
\* relation of every canonical entity has been submitted to the resolver.
C26_EveryTargetSubmitted ==
    Submitted => PlaceTargets \subseteq Range(place_arg)

\* C26 as amended: the resolver is called only when the merge is over, and the
\* list it is given holds, once each, exactly the targets of the place-like
\* relations of the canonical entities that are non-empty identifiers beginning
\* with Q other than Russia (Q159) and Ukraine (Q212) themselves.
C26_TargetsExceptTheTwoCountries ==
    /\ ~Submitted => place_arg = <<>> /\ requests = <<>>
    /\ Submitted =>
          /\ i > Len(all_rows)
          /\ Range(place_arg) = {q \in PlaceTargets : q \in QNames} \ {"Q159", "Q212"}
          /\ \A a, b \in DOMAIN place_arg : place_arg[a] = place_arg[b] => a = b
          /\ \A n \in DOMAIN requests : Range(requests[n].batch) \subseteq Range(place_arg)

C26_Witness ==
    /\ pc = "done"
    /\ Len(merged) = 2
    /\ "Q212" \in PlaceTargets /\ "" \in PlaceTargets
    /\ place_arg = <<"Q100", "Q9002">>
    /\ "Q100" \notin Range(out_file[1].raw_attrib_qids["P159"])
    /\ Len(requests) = 1

\* build_place_country_map on a list of at most one batch, every request
\* answered.
IndexFor(places) == Accumulate(<<>>, ValidPlaces(sorted(places)))

\* main() on a list of rows as one function: merge, place set, index, labels.
RunOn(rows, seed, T) ==
    LET mg == merge_records_by_qid(rows)
        index == IndexFor(PlaceSet(mg, [k \in DOMAIN mg |-> k]))
    IN  [k \in DOMAIN mg |-> Classified(mg[k], index, seed, T)]

\* The rows of in_rows that carry an identifier of S, in their order.
Partition(S) == SelectSeq(in_rows, LAMBDA r : r.qid \in S)

\* A classified record without the order of its hits.
Core(e) ==
    [e EXCEPT !.ru_ua_attribution_detail =
        <<[@[1] EXCEPT !.hits = {@[n] : n \in DOMAIN @}]>>]

\* C29: for every set S of identifiers, merging and scoring only the rows of S
\* gives, for each identifier of S, the canonical record, the scores and the
\* label that the one pass over all rows gives, whatever rows of other
\* identifiers lie between them and whichever hash seed the separate run has.
C29_PartitionsIndependent ==
    pc = "done" =>
        \A S \in SUBSET QidsOf(in_rows) : \A seed \in HashSeeds :
            LET part == RunOn(Partition(S), seed, threshold)
            IN  /\ {part[n].qid : n \in DOMAIN part} = S
                /\ Len(part) = Cardinality(S)
                /\ \A n \in DOMAIN part : \E m \in DOMAIN out_file :
                       /\ out_file[m].qid = part[n].qid
                       /\ Core(out_file[m]) = Core(part[n])

C29_Witness ==
    /\ pc = "done"
    /\ Len(in_rows) = 3 /\ Len(out_file) = 2
    /\ in_rows[1].qid = in_rows[3].qid /\ in_rows[1] # in_rows[3]
    /\ in_rows[2].qid # NULL
    /\ out_file[1].ru_ua_attribution # out_file[2].ru_ua_attribution

\* The positions of the rows that are the first of their identifier.
FirstOfId == {k \in DOMAIN in_rows :
                /\ ~Falsy(in_rows[k].qid)
                /\ \A j \in 1..(k - 1) : in_rows[j].qid # in_rows[k].qid}

\* C30: merge_records_by_qid changes only the first record of each identifier,
\* which is the record it returns for that identifier; every later record of the
\* identifier and every record without identifier stays as it was read.
C30_OnlyFirstRecordModified ==
    /\ \A k \in DOMAIN all_rows : k \notin FirstOfId => all_rows[k] = in_rows[k]
    /\ Range(merged) \subseteq FirstOfId
    /\ pc # "merge" =>
          /\ Range(merged) = FirstOfId
          /\ \A k \in FirstOfId : all_rows[k]._sources # in_rows[k]._sources

C30_Witness ==
    /\ pc = "classify"
    /\ Len(in_rows) = 3
    /\ Falsy(in_rows[1].qid)
    /\ in_rows[2].qid = in_rows[3].qid
    /\ all_rows[2].raw_attrib_qids # in_rows[2].raw_attrib_qids
    /\ all_rows[3] = in_rows[3]

====
